---- MODULE Spec2Model ----
(***************************************************************************)
(* Model of the aircraft performance model of src/ac.py (and of its older  *)
(* variant src/.ipynb_checkpoints/ac-checkpoint.py): the Variable value    *)
(* holder, the Aircraft dataclass with its class-level default Variables,  *)
(* the derivation of the outputs in __post_init__, and the operations a    *)
(* caller has on a constructed Aircraft.                                   *)
(*                                                                         *)
(* Numbers.  A Python float is modelled by the exact rational it denotes   *)
(* (a literal such as 9.81 is 981/100, math.pi is its printed value), or   *)
(* by one of the IEEE specials nan, +inf, -inf.  Rounding error and        *)
(* overflow of finite values are not modelled.  Rationals are kept as      *)
(* sign, numerator, denominator over arbitrary-size naturals, because the  *)
(* products of the formulas do not fit TLC's machine integers.             *)
(*                                                                         *)
(* The class body gives every input field a Variable instance as its       *)
(* default; the dataclass decorator accepts that up to Python 3.10 (later  *)
(* versions refuse an unhashable default when the class is defined), and   *)
(* the model is of the script as it runs there.                            *)
(***************************************************************************)
EXTENDS Integers, Sequences, FiniteSets, TLC

(***************************************************************************)
(* Arbitrary-size naturals: little-endian sequences of limbs, no leading   *)
(* zero limb, <<>> is zero.                                                *)
(***************************************************************************)
Base == 10^4

RECURSIVE NatOf(_)
NatOf(n) == IF n = 0 THEN <<>> ELSE <<n % Base>> \o NatOf(n \div Base)

Hd(a) == IF a = <<>> THEN 0 ELSE Head(a)

Tl(a) == IF a = <<>> THEN <<>> ELSE Tail(a)

RECURSIVE AddC(_, _, _)
AddC(a, b, c) ==
    IF a = <<>> /\ b = <<>> THEN NatOf(c)
    ELSE IF b = <<>> /\ c = 0 THEN a
    ELSE LET x == Hd(a) + Hd(b) + c
         IN  <<x % Base>> \o AddC(Tl(a), Tl(b), x \div Base)

NAdd(a, b) == AddC(a, b, 0)

RECURSIVE MulS(_, _, _)
MulS(a, k, c) ==
    IF a = <<>> THEN NatOf(c)
    ELSE LET x == Head(a) * k + c
         IN  <<x % Base>> \o MulS(Tail(a), k, x \div Base)

Shift(a) == IF a = <<>> THEN <<>> ELSE <<0>> \o a

RECURSIVE NMul(_, _)
NMul(a, b) ==
    IF a = <<>> \/ b = <<>> THEN <<>>
    ELSE NAdd(MulS(a, Head(b), 0), Shift(NMul(a, Tail(b))))

RECURSIVE CmpFrom(_, _, _)
CmpFrom(a, b, i) ==
    IF i = 0 THEN 0
    ELSE IF a[i] < b[i] THEN -1
    ELSE IF a[i] > b[i] THEN 1
    ELSE CmpFrom(a, b, i - 1)

NCmp(a, b) ==
    IF Len(a) < Len(b) THEN -1
    ELSE IF Len(a) > Len(b) THEN 1
    ELSE CmpFrom(a, b, Len(a))

RECURSIVE Strip(_)
Strip(a) == IF a = <<>> THEN <<>>
            ELSE IF a[Len(a)] = 0 THEN Strip(SubSeq(a, 1, Len(a) - 1))
            ELSE a

RECURSIVE SubB(_, _, _)
SubB(a, b, c) ==
    IF a = <<>> THEN <<>>
    ELSE LET x == Head(a) - Hd(b) - c
         IN  IF x < 0 THEN <<x + Base>> \o SubB(Tail(a), Tl(b), 1)
             ELSE <<x>> \o SubB(Tail(a), Tl(b), 0)

\* a - b for a >= b
NSub(a, b) == Strip(SubB(a, b, 0))

(***************************************************************************)
(* Python float values.  k is "fin" (the rational s*n/d, s the sign, d not *)
(* zero), "nan", "inf" (s its sign), "zde" or "attr" (the evaluation       *)
(* raised ZeroDivisionError or AttributeError, which every enclosing       *)
(* operation propagates, the left operand's first), or "unset" (an         *)
(* init=False field not assigned yet: reading it is an AttributeError).    *)
(* The sign of a zero is not kept: Python raises on a division by either   *)
(* zero.                                                                   *)
(***************************************************************************)
One == <<1>>

Zero == [k |-> "fin", s |-> 0, n |-> <<>>, d |-> One]

NaN == [k |-> "nan", s |-> 0, n |-> <<>>, d |-> One]

Inf(sg) == [k |-> "inf", s |-> sg, n |-> <<>>, d |-> One]

PInf == Inf(1)

ZeroDivisionError == [k |-> "zde", s |-> 0, n |-> <<>>, d |-> One]

AttributeError == [k |-> "attr", s |-> 0, n |-> <<>>, d |-> One]

Unset == [k |-> "unset", s |-> 0, n |-> <<>>, d |-> One]

\* num/den without the powers of Base both share
RECURSIVE Reduced(_, _, _)
Reduced(sg, num, den) ==
    IF Head(num) = 0 /\ Head(den) = 0 THEN Reduced(sg, Tail(num), Tail(den))
    ELSE [k |-> "fin", s |-> sg, n |-> num, d |-> den]

Fin(sg, num, den) == IF num = <<>> \/ sg = 0 THEN Zero
                     ELSE Reduced(sg, num, den)

Sgn(m) == IF m < 0 THEN -1 ELSE IF m > 0 THEN 1 ELSE 0

Abs(m) == IF m < 0 THEN -m ELSE m

\* the decimal literal m * 10^(-p)
Dec(m, p) == Fin(Sgn(m), NatOf(Abs(m)), NatOf(10^p))

Num(m) == Dec(m, 0)

IsFin(a) == a.k = "fin"

IsZero(a) == a.k = "fin" /\ a.s = 0

Raised(a) == a.k \in {"zde", "attr", "unset"}

ErrorOf(a) == IF a.k = "unset" THEN AttributeError ELSE a

\* the exception a binary operation on a and b propagates
Propagated(a, b) == IF Raised(a) THEN ErrorOf(a) ELSE ErrorOf(b)

NonFinite(a) == a.k \in {"nan", "inf"}

\* float.__mul__
FMul(a, b) ==
    IF Raised(a) \/ Raised(b) THEN Propagated(a, b)
    ELSE IF a.k = "nan" \/ b.k = "nan" THEN NaN
    ELSE IF a.k = "inf" \/ b.k = "inf"
         THEN IF IsZero(a) \/ IsZero(b) THEN NaN ELSE Inf(a.s * b.s)
    ELSE Fin(a.s * b.s, NMul(a.n, b.n), NMul(a.d, b.d))

\* float.__truediv__: a zero divisor raises, whatever the dividend
FDiv(a, b) ==
    IF Raised(a) \/ Raised(b) THEN Propagated(a, b)
    ELSE IF IsZero(b) THEN ZeroDivisionError
    ELSE IF a.k = "nan" \/ b.k = "nan" THEN NaN
    ELSE IF a.k = "inf" THEN (IF b.k = "inf" THEN NaN ELSE Inf(a.s * b.s))
    ELSE IF b.k = "inf" THEN Zero
    ELSE Fin(a.s * b.s, NMul(a.n, b.d), NMul(a.d, b.n))

\* float.__add__
FAdd(a, b) ==
    IF Raised(a) \/ Raised(b) THEN Propagated(a, b)
    ELSE IF a.k = "nan" \/ b.k = "nan" THEN NaN
    ELSE IF a.k = "inf" THEN (IF b.k = "inf" /\ b.s # a.s THEN NaN ELSE a)
    ELSE IF b.k = "inf" THEN b
    ELSE IF a.s = 0 THEN b
    ELSE IF b.s = 0 THEN a
    ELSE LET x == NMul(a.n, b.d)
             y == NMul(b.n, a.d)
             den == NMul(a.d, b.d)
             c == NCmp(x, y)
         IN  IF a.s = b.s THEN Fin(a.s, NAdd(x, y), den)
             ELSE IF c = 0 THEN Zero
             ELSE IF c > 0 THEN Fin(a.s, NSub(x, y), den)
             ELSE Fin(b.s, NSub(y, x), den)

\* x ** 2
FSq(a) == FMul(a, a)

\* a < b as Python compares floats: false when either is nan
FLt(a, b) ==
    /\ a.k \in {"fin", "inf"} /\ b.k \in {"fin", "inf"}
    /\ IF a.k = "inf" THEN a.s < 0 /\ ~(b.k = "inf" /\ b.s < 0)
       ELSE IF b.k = "inf" THEN b.s > 0
       ELSE IF a.s # b.s THEN a.s < b.s
       ELSE IF a.s = 0 THEN FALSE
       ELSE LET c == NCmp(NMul(a.n, b.d), NMul(b.n, a.d))
            IN  IF a.s > 0 THEN c < 0 ELSE c > 0

\* the same value: both nan, the same infinity, or equal rationals
Same(a, b) ==
    \/ a = b
    \/ /\ a.k = "fin" /\ b.k = "fin"
       /\ a.s = b.s
       /\ NMul(a.n, b.d) = NMul(b.n, a.d)

(***************************************************************************)
(* The numeric literals of the source.                                     *)
(***************************************************************************)
G == Dec(981, 2)

KMH_PER_MS == Dec(36, 1)

\* math.pi, 3.141592653589793
PI == Fin(1, NAdd(NMul(NatOf(314159265), NatOf(10^7)), NatOf(3589793)),
             NMul(NatOf(10^8), NatOf(10^7)))

RHO_DEFAULT == Dec(1225, 3)

RHO_0998 == Dec(998, 3)

RHO_0909 == Dec(909, 3)

H2_KWH_PER_KG == Dec(3333, 2)

\* mutant: the speed is taken as m/s already
kmh_in_ms_identity(kmh) == kmh

kmh_in_ms(kmh) == FDiv(kmh, KMH_PER_MS)

(***************************************************************************)
(* The formula methods.  self maps a field name to the .v of the Variable  *)
(* the field refers to.                                                    *)
(***************************************************************************)
calc_cL(self, speed, rho) ==
    FDiv(FMul(FMul(Num(2), self["weight"]), G),
         FMul(FMul(rho, self["wing_area"]), FSq(kmh_in_ms(speed))))

\* mutant: the induced drag grows with cL, not with its square
calc_cD_unsquared(self, cL) ==
    FAdd(self["cD_0"],
         FDiv(cL,
              FMul(FMul(PI, FDiv(FSq(self["wing_span"]), self["wing_area"])),
                   self["e"])))

calc_cD(self, cL) ==
    FAdd(self["cD_0"],
         FDiv(FSq(cL),
              FMul(FMul(PI, FDiv(FSq(self["wing_span"]), self["wing_area"])),
                   self["e"])))

\* mutant: the energy of the default range, whatever cruise_range is
calc_total_energy_default_range(self) ==
    FDiv(FMul(FMul(FDiv(Num(370 * 1000), Num(1000000)), G), self["weight"]),
         FMul(FMul(self["eff_total"], self["LD_cruise"]), KMH_PER_MS))

\* mutant: the conversion of seconds to hours is left out
calc_total_energy_no_hours(self) ==
    FDiv(FMul(FMul(FDiv(self["cruise_range"], Num(1000000)), G), self["weight"]),
         FMul(self["eff_total"], self["LD_cruise"]))

calc_total_energy(self) ==
    FDiv(FMul(FMul(FDiv(self["cruise_range"], Num(1000000)), G), self["weight"]),
         FMul(FMul(self["eff_total"], self["LD_cruise"]), KMH_PER_MS))

\* mutant: the shaft power is multiplied by the efficiency
calc_total_power_times_eff(self) ==
    FMul(FDiv(FMul(self["weight"], G), FMul(self["LD_cruise"], Num(1000))),
         FMul(kmh_in_ms(self["cruise_speed"]), self["eff_total"]))

calc_total_power(self) ==
    FMul(FDiv(FMul(self["weight"], G), FMul(self["LD_cruise"], Num(1000))),
         FDiv(kmh_in_ms(self["cruise_speed"]), self["eff_total"]))

(***************************************************************************)
(* The Aircraft dataclass.                                                 *)
(***************************************************************************)
InputFields == {"weight", "wing_area", "wing_span", "cruise_speed", "climb_speed",
                "cruise_range", "cruise_height", "e", "cD_0", "eff_total"}

OutFields == {"cL_climb", "cD_climb", "LD_climb", "cL_cruise", "cD_cruise",
              "LD_cruise", "p_cruise", "e_cruise", "h2_required"}

\* the two versions of the script under src/
Variants == {"ac", "checkpoint"}

\* the .v of the class-level default Variable of each input field; the
\* defaults are evaluated once, when the class body runs
ClassDefaults(var) ==
    [f \in InputFields |->
        CASE f = "weight" -> IF var = "ac" THEN Num(1980) ELSE Num(1950)
          [] f = "wing_area" -> Dec(163, 1)
          [] f = "wing_span" -> Dec(131, 1)
          [] f = "cruise_speed" -> Num(250)
          [] f = "climb_speed" -> Num(80)
          [] f = "cruise_range" -> IF var = "ac" THEN Num(370 * 1000) ELSE Num(350 * 1000)
          [] f = "cruise_height" -> Num(3000)
          [] f = "e" -> Dec(8, 1)
          [] f = "cD_0" -> Dec(3, 2)
          [] f = "eff_total" -> Dec(3986, 4)]

\* mutant: the climb phase is left at calc_cL's default density
RhoClimb_default(var) == RHO_DEFAULT

\* the density __post_init__ passes to calc_cL for the climb phase
RhoClimb(var) == IF var = "ac" THEN RHO_0998 ELSE RHO_DEFAULT

\* the density __post_init__ passes to calc_cL for the cruise phase
RhoCruise(var) == IF var = "ac" THEN RHO_DEFAULT ELSE RHO_0909

\* the statements of __post_init__, in program order
LastStmt == 9

StmtField(k) ==
    CASE k = 1 -> "cL_climb"
      [] k = 2 -> "cD_climb"
      [] k = 3 -> "LD_climb"
      [] k = 4 -> "cL_cruise"
      [] k = 5 -> "cD_cruise"
      [] k = 6 -> "LD_cruise"
      [] k = 7 -> "p_cruise"
      [] k = 8 -> "e_cruise"
      [] k = 9 -> "h2_required"

\* mutant: the energy is multiplied by the specific energy
h2_of_times(e_cruise) == FMul(e_cruise, H2_KWH_PER_KG)

h2_of(e_cruise) == FDiv(e_cruise, H2_KWH_PER_KG)

\* the value statement k computes; me maps every field to its current .v
StmtValue(k, me, var) ==
    CASE k = 1 -> calc_cL(me, me["climb_speed"], RhoClimb(var))
      [] k = 2 -> calc_cD(me, me["cL_climb"])
      [] k = 3 -> FDiv(me["cL_climb"], me["cD_climb"])
      [] k = 4 -> calc_cL(me, me["cruise_speed"], RhoCruise(var))
      [] k = 5 -> calc_cD(me, me["cL_cruise"])
      [] k = 6 -> FDiv(me["cL_cruise"], me["cD_cruise"])
      [] k = 7 -> calc_total_power(me)
      [] k = 8 -> calc_total_energy(me)
      [] k = 9 -> h2_of(me["e_cruise"])

(***************************************************************************)
(* State.                                                                  *)
(*   variant   which version of the script runs                            *)
(*   defaults  the .v of each class-level default Variable object; every   *)
(*             Aircraft built without an argument for a field refers to    *)
(*             that one object                                             *)
(*   models    the Aircraft objects the caller holds, oldest first.  own[f]*)
(*             says the field refers to a Variable of the object's own     *)
(*             (val[f] is its .v) and not to the class default; out holds  *)
(*             the .v of the derived output Variables                      *)
(*   self      the object under construction, or NoObject                  *)
(*   pc        0: the caller runs; 1..9: the next statement of             *)
(*             __post_init__; 10: __post_init__ is done                    *)
(*   outcome   how the last construction ended                             *)
(*   nmut      the number of assignments the caller has made               *)
(***************************************************************************)
VARIABLES variant, defaults, models, self, pc, outcome, nmut

vars == <<variant, defaults, models, self, pc, outcome, nmut>>

MaxInst == 2

MaxMut == 1

NoObject == [own |-> [f \in InputFields |-> FALSE],
             val |-> [f \in InputFields |-> Unset],
             out |-> [f \in OutFields |-> Unset]]

\* obj.<f>.v for every field f, given the class defaults dflt
View(obj, dflt) ==
    [f \in InputFields \cup OutFields |->
        IF f \in OutFields THEN obj.out[f]
        ELSE IF obj.own[f] THEN obj.val[f]
        ELSE dflt[f]]

Init ==
    /\ variant \in Variants
    /\ defaults = ClassDefaults(variant)
    /\ models = <<>>
    /\ self = NoObject
    /\ pc = 0
    /\ outcome = "none"
    /\ nmut = 0

\* Aircraft(**args), args a map from some input fields to the .v of the
\* Variables passed: the generated __init__ binds the argument or the class
\* default to each input field and calls __post_init__
Construct(args) ==
    /\ pc = 0
    /\ Len(models) < MaxInst
    /\ self' = [NoObject EXCEPT
                  !.own = [g \in InputFields |-> g \in DOMAIN args],
                  !.val = [g \in InputFields |->
                              IF g \in DOMAIN args THEN args[g] ELSE Unset]]
    /\ pc' = 1
    /\ outcome' = "none"
    /\ UNCHANGED <<variant, defaults, models, nmut>>

\* one statement of __post_init__ whose right-hand side evaluates
Derive ==
    /\ pc \in 1..LastStmt
    /\ LET r == StmtValue(pc, View(self, defaults), variant)
       IN  /\ ~Raised(r)
           /\ self' = [self EXCEPT !.out[StmtField(pc)] = r]
    /\ pc' = pc + 1
    /\ UNCHANGED <<variant, defaults, models, outcome, nmut>>

\* one statement of __post_init__ whose right-hand side raises: the
\* exception leaves __init__ and the caller gets no object
Raise ==
    /\ pc \in 1..LastStmt
    /\ LET r == StmtValue(pc, View(self, defaults), variant)
       IN  /\ Raised(r)
           /\ outcome' = (IF ErrorOf(r).k = "zde" THEN "ZeroDivisionError"
                          ELSE "AttributeError")
    /\ self' = NoObject
    /\ pc' = 0
    /\ UNCHANGED <<variant, defaults, models, nmut>>

\* __init__ returns the object to the caller
Return ==
    /\ pc = LastStmt + 1
    /\ models' = Append(models, self)
    /\ self' = NoObject
    /\ pc' = 0
    /\ outcome' = "returned"
    /\ UNCHANGED <<variant, defaults, nmut>>

\* models[i].<f>.v = x
SetV(i, f, x) ==
    /\ pc = 0
    /\ nmut < MaxMut
    /\ i \in 1..Len(models)
    /\ IF models[i].own[f]
       THEN /\ models' = [models EXCEPT ![i].val[f] = x]
            /\ UNCHANGED defaults
       ELSE /\ defaults' = [defaults EXCEPT ![f] = x]
            /\ UNCHANGED models
    /\ nmut' = nmut + 1
    /\ UNCHANGED <<variant, self, pc, outcome>>

\* models[i].<f> = Variable(x)
SetField(i, f, x) ==
    /\ pc = 0
    /\ nmut < MaxMut
    /\ i \in 1..Len(models)
    /\ models' = [models EXCEPT ![i].own[f] = TRUE, ![i].val[f] = x]
    /\ nmut' = nmut + 1
    /\ UNCHANGED <<variant, defaults, self, pc, outcome>>

NoArgs == [f \in {} |-> Unset]

\* the calls of the script's sweeps and of a caller probing the edges: no
\* argument, one argument, or two
CallerArgs ==
    {NoArgs}
    \cup {"weight" :> x : x \in {Num(1950), NaN}}
    \cup {"wing_area" :> Zero, "wing_span" :> Zero, "eff_total" :> Zero}
    \cup {"cruise_range" :> x : x \in {Zero, Num(200000), PInf}}
    \cup {"eff_total" :> x : x \in {Dec(42, 2), PInf}}
    \cup {"cD_0" :> Num(-1)}
    \cup {("cruise_speed" :> Num(150)) @@ ("eff_total" :> Dec(42, 2))}
    \cup {("cD_0" :> Num(-1)) @@ ("eff_total" :> Dec(42, 2))}
    \cup {("cD_0" :> Num(-1)) @@ ("cruise_range" :> Num(200000))}
    \cup {("cruise_range" :> PInf) @@ ("eff_total" :> Dec(42, 2))}
    \cup {("eff_total" :> PInf) @@ ("cruise_range" :> Num(200000))}

\* the calls and the assigned values of a caller that also assigns
MutatorArgs == {NoArgs, "weight" :> Num(1700)}

AssignedVals(f) ==
    CASE f = "weight" -> {Num(1000)}
      [] f = "wing_area" -> {Zero, Num(20)}
      [] f = "cruise_range" -> {Num(100000)}
      [] f = "eff_total" -> {Dec(5, 1)}
      [] OTHER -> {}

Next ==
    \/ \E args \in CallerArgs : Construct(args)
    \/ Derive
    \/ Raise
    \/ Return

Spec == Init /\ [][Next]_vars

NextMutation ==
    \/ \E args \in MutatorArgs : Construct(args)
    \/ Derive
    \/ Raise
    \/ Return
    \/ \E i \in 1..MaxInst, f \in InputFields : \E x \in AssignedVals(f) : SetV(i, f, x)
    \/ \E i \in 1..MaxInst, f \in InputFields : \E x \in AssignedVals(f) : SetField(i, f, x)

SpecMutation == Init /\ [][NextMutation]_vars

(***************************************************************************)
(* The formulas as the specification states them (section 4.2), used to    *)
(* state the properties below.                                             *)
(***************************************************************************)
SpecCL(weight, wing_area, speed_kmh, rho) ==
    FDiv(FMul(FMul(Num(2), weight), Dec(981, 2)),
         FMul(FMul(rho, wing_area), FSq(FDiv(speed_kmh, Dec(36, 1)))))

SpecCD(cD0, cL, wing_span, wing_area, e) ==
    FAdd(cD0, FDiv(FSq(cL), FMul(FMul(PI, FDiv(FSq(wing_span), wing_area)), e)))

SpecPower(weight, LD, speed_kmh, eff) ==
    FMul(FDiv(FMul(weight, Dec(981, 2)), FMul(LD, Num(1000))),
         FDiv(FDiv(speed_kmh, Dec(36, 1)), eff))

SpecEnergy(range, weight, eff, LD) ==
    FDiv(FMul(FMul(FDiv(range, Num(1000000)), Dec(981, 2)), weight),
         FMul(FMul(eff, LD), Dec(36, 1)))

\* the densities the two versions of __post_init__ use
ClimbDensity(var) == IF var = "ac" THEN Dec(998, 3) ELSE Dec(1225, 3)

CruiseDensity(var) == IF var = "ac" THEN Dec(1225, 3) ELSE Dec(909, 3)

\* every derived output, from the inputs alone
Expected(in, var) ==
    LET cLc == SpecCL(in["weight"], in["wing_area"], in["climb_speed"], ClimbDensity(var))
        cDc == SpecCD(in["cD_0"], cLc, in["wing_span"], in["wing_area"], in["e"])
        cLr == SpecCL(in["weight"], in["wing_area"], in["cruise_speed"], CruiseDensity(var))
        cDr == SpecCD(in["cD_0"], cLr, in["wing_span"], in["wing_area"], in["e"])
        LDr == FDiv(cLr, cDr)
        en  == SpecEnergy(in["cruise_range"], in["weight"], in["eff_total"], LDr)
    IN  [cL_climb |-> cLc, cD_climb |-> cDc, LD_climb |-> FDiv(cLc, cDc),
         cL_cruise |-> cLr, cD_cruise |-> cDr, LD_cruise |-> LDr,
         p_cruise |-> SpecPower(in["weight"], LDr, in["cruise_speed"], in["eff_total"]),
         e_cruise |-> en, h2_required |-> FDiv(en, Dec(3333, 2))]

\* the outputs of obj are those of the formulas at its current inputs
Consistent(obj, dflt, var) ==
    LET ex == Expected(View(obj, dflt), var)
    IN  \A f \in OutFields : Same(obj.out[f], ex[f])

Models == 1..Len(models)

In(i) == View(models[i], defaults)

Positive(a) == FLt(Zero, a)

\* models i and j have the same inputs but for field f
DifferOnlyIn(i, j, f) ==
    /\ ~Same(In(i)[f], In(j)[f])
    /\ \A g \in InputFields \ {f} : Same(In(i)[g], In(j)[g])

\* x rounds to the decimal m * 10^(-p)
RoundsTo(x, m, p) ==
    /\ ~FLt(x, Dec(10 * m - 5, p + 1))
    /\ FLt(x, Dec(10 * m + 5, p + 1))

\* the caller runs: only then can it read a model (the program has one thread)
CallerRuns == pc = 0

\* the construction of self ends with this step
Ends == pc # 0 /\ pc' = 0

\* obj has a zero wing_area, wing_span or eff_total and every other input
\* at a finite non-zero value
ZeroInput(obj) ==
    \E f \in {"wing_area", "wing_span", "eff_total"} :
        /\ IsZero(View(obj, defaults)[f])
        /\ \A g \in InputFields \ {f} :
              IsFin(View(obj, defaults)[g]) /\ ~IsZero(View(obj, defaults)[g])

\* the inputs the formulas read
FormulaInputs == InputFields \ {"cruise_height"}

NonFiniteInput(obj) ==
    \E f \in FormulaInputs : NonFinite(View(obj, defaults)[f])

\* the outputs cL, cD, LD of model i are those of one phase flown at speed
\* and density rho
PhaseFrom(i, cL, cD, LD, speed, rho) ==
    /\ Same(models[i].out[cL],
            SpecCL(In(i)["weight"], In(i)["wing_area"], In(i)[speed], rho))
    /\ Same(models[i].out[cD],
            SpecCD(In(i)["cD_0"], models[i].out[cL], In(i)["wing_span"],
                   In(i)["wing_area"], In(i)["e"]))
    /\ Same(models[i].out[LD], FDiv(models[i].out[cL], models[i].out[cD]))

\* the inputs of the specification's literal case (section 8)
LiteralCase(i) ==
    /\ Same(In(i)["weight"], Num(1950))
    /\ Same(In(i)["wing_area"], Dec(163, 1))
    /\ Same(In(i)["wing_span"], Dec(131, 1))
    /\ Same(In(i)["cruise_speed"], Num(250))
    /\ Same(In(i)["cD_0"], Dec(3, 2))
    /\ Same(In(i)["e"], Dec(8, 1))

\* models i and j differ only in eff_total, j has the larger one, and the
\* inputs the claim names are positive
EfficiencyPair(i, j) ==
    /\ DifferOnlyIn(i, j, "eff_total")
    /\ Positive(In(i)["eff_total"]) /\ Positive(In(j)["eff_total"])
    /\ Positive(In(i)["weight"])
    /\ Positive(In(i)["cruise_speed"])
    /\ Positive(In(i)["cruise_range"])
    /\ FLt(In(i)["eff_total"], In(j)["eff_total"])

RangePair(i, j) == DifferOnlyIn(i, j, "cruise_range")

\* e_cruise scales with cruise_range from model i to model j, and no other
\* output but h2_required differs
LinearAndUnchanged(i, j) ==
    /\ Same(FMul(models[i].out["e_cruise"], In(j)["cruise_range"]),
            FMul(models[j].out["e_cruise"], In(i)["cruise_range"]))
    /\ \A f \in OutFields \ {"e_cruise", "h2_required"} :
          Same(models[i].out[f], models[j].out[f])

\* the energy per metre of model i is positive
PositiveEnergyPerMetre(i) ==
    /\ Positive(In(i)["weight"])
    /\ Positive(In(i)["eff_total"]) /\ IsFin(In(i)["eff_total"])
    /\ Positive(models[i].out["LD_cruise"])

IsSet(obj, f) == obj.out[f].k # "unset"

(***************************************************************************)
(* C1.  Constructing an Aircraft whose wing_area, wing_span or eff_total   *)
(* is 0, every other input valid and non-zero, ends in InvalidInputError   *)
(* and returns no model.                                                   *)
(***************************************************************************)
C1_ZeroInputIsInvalidInputError ==
    [][Ends /\ ZeroInput(self) =>
          outcome' = "InvalidInputError" /\ models' = models]_vars

(***************************************************************************)
(* C2.  Constructing an Aircraft with a non-finite formula input (nan or   *)
(* an infinity) ends in InvalidInputError; no model with a nan or infinite *)
(* output is ever returned.                                                *)
(***************************************************************************)
C2_NonFiniteInputIsInvalidInputError ==
    [][Ends =>
          /\ NonFiniteInput(self) =>
                outcome' = "InvalidInputError" /\ models' = models
          /\ \A i \in 1..Len(models') : \A f \in OutFields :
                ~NonFinite(models'[i].out[f])]_vars

C4_NoSharedState ==
    [][/\ nmut' # nmut =>
             \A i, j \in Models :
                 i # j /\ View(models'[i], defaults') # In(i) =>
                     View(models'[j], defaults') = In(j)
       /\ Len(models') = Len(models) + 1 =>
             \A f \in InputFields :
                 ~models'[Len(models')].own[f] =>
                     View(models'[Len(models')], defaults')[f] = ClassDefaults(variant)[f]]_vars

C6_LiftCoefficient5834 ==
    CallerRuns => \A i \in Models :
        LiteralCase(i) /\ variant = "checkpoint" =>
            RoundsTo(models[i].out["cL_cruise"], 5834, 4)

(***************************************************************************)
(* C6 as amended.  For these inputs cL_cruise is 0.5354 to 4 significant   *)
(* figures where the cruise density is 0.909 (the checkpoint version), and *)
(* 0.3973 where the construction uses 1.225 for the cruise phase (ac.py).  *)
(***************************************************************************)
C6_LiftCoefficient5354 ==
    CallerRuns => \A i \in Models :
        LiteralCase(i) =>
            IF variant = "checkpoint"
            THEN RoundsTo(models[i].out["cL_cruise"], 5354, 4)
            ELSE RoundsTo(models[i].out["cL_cruise"], 3973, 4)

\* C6: the checkpoint version has returned a model of the literal case
C6_Witness ==
    /\ variant = "checkpoint"
    /\ CallerRuns
    /\ \E i \in Models : LiteralCase(i)

(***************************************************************************)
(* C7 as claimed.  Of two models that differ only in eff_total, with both  *)
(* eff_total and weight, cruise_speed, cruise_range positive, the one with *)
(* the larger eff_total has strictly smaller p_cruise and e_cruise.        *)
(***************************************************************************)
C7_EfficiencyLowersPowerAndEnergy ==
    CallerRuns => \A i, j \in Models :
        EfficiencyPair(i, j) =>
            /\ FLt(models[j].out["p_cruise"], models[i].out["p_cruise"])
            /\ FLt(models[j].out["e_cruise"], models[i].out["e_cruise"])

(***************************************************************************)
(* C7 as amended.  The same, provided LD_cruise is positive as well: then  *)
(* p_cruise is strictly smaller, and e_cruise is strictly smaller when     *)
(* cruise_range is finite.                                                 *)
(***************************************************************************)
C7_EfficiencyLowersPowerAndEnergyPositiveLD ==
    CallerRuns => \A i, j \in Models :
        EfficiencyPair(i, j) /\ Positive(models[i].out["LD_cruise"]) =>
            /\ FLt(models[j].out["p_cruise"], models[i].out["p_cruise"])
            /\ IsFin(In(i)["cruise_range"]) =>
                  FLt(models[j].out["e_cruise"], models[i].out["e_cruise"])

\* C7: two models with positive LD_cruise and a finite range differ only in eff_total
C7_Witness ==
    /\ CallerRuns
    /\ \E i, j \in Models :
          /\ EfficiencyPair(i, j)
          /\ Positive(models[i].out["LD_cruise"])
          /\ IsFin(In(i)["cruise_range"])

(***************************************************************************)
(* C8 as claimed.  Of two models that differ only in cruise_range, the one *)
(* with the larger cruise_range has strictly larger e_cruise; e_cruise is  *)
(* linear in cruise_range and 0 at cruise_range 0; p_cruise and the lift   *)
(* and drag outputs are the same.                                          *)
(***************************************************************************)
C8_RangeRaisesEnergy ==
    CallerRuns =>
        /\ \A i, j \in Models :
              RangePair(i, j) =>
                  /\ FLt(In(i)["cruise_range"], In(j)["cruise_range"]) =>
                        FLt(models[i].out["e_cruise"], models[j].out["e_cruise"])
                  /\ LinearAndUnchanged(i, j)
        /\ \A i \in Models :
              IsZero(In(i)["cruise_range"]) => IsZero(models[i].out["e_cruise"])

(***************************************************************************)
(* C8 as amended.  e_cruise is linear in cruise_range and p_cruise and the *)
(* lift and drag outputs are the same; the larger cruise_range has the     *)
(* strictly larger e_cruise, and cruise_range 0 gives e_cruise 0, when     *)
(* weight, eff_total and LD_cruise are positive and eff_total is finite.   *)
(***************************************************************************)
C8_RangeRaisesEnergyPositiveSlope ==
    CallerRuns =>
        /\ \A i, j \in Models :
              RangePair(i, j) =>
                  /\ (FLt(In(i)["cruise_range"], In(j)["cruise_range"])
                         /\ PositiveEnergyPerMetre(i)) =>
                        FLt(models[i].out["e_cruise"], models[j].out["e_cruise"])
                  /\ LinearAndUnchanged(i, j)
        /\ \A i \in Models :
              (IsZero(In(i)["cruise_range"]) /\ PositiveEnergyPerMetre(i)) =>
                  IsZero(models[i].out["e_cruise"])

\* C8: a model of range 0 and one of a positive range, otherwise alike, with
\* a positive energy per metre
C8_Witness ==
    /\ CallerRuns
    /\ \E i, j \in Models :
          /\ RangePair(i, j)
          /\ PositiveEnergyPerMetre(i)
          /\ IsZero(In(i)["cruise_range"])
          /\ Positive(In(j)["cruise_range"])

(***************************************************************************)
(* C9.  h2_required of every model is its own e_cruise divided by 33.33,   *)
(* and during the construction h2_required is set only after e_cruise,     *)
(* e_cruise only after LD_cruise, LD_cruise only after cD_cruise and       *)
(* cD_cruise only after cL_cruise.                                         *)
(***************************************************************************)
C9_HydrogenFromEnergy ==
    /\ CallerRuns => \A i \in Models :
          Same(models[i].out["h2_required"],
               FDiv(models[i].out["e_cruise"], Dec(3333, 2)))
    /\ IsSet(self, "h2_required") => IsSet(self, "e_cruise")
    /\ IsSet(self, "e_cruise") => IsSet(self, "LD_cruise")
    /\ IsSet(self, "LD_cruise") => IsSet(self, "cD_cruise")
    /\ IsSet(self, "cD_cruise") => IsSet(self, "cL_cruise")

\* C9: a model with a hydrogen mass is held while the next one has its energy
\* but not yet its hydrogen mass
C9_Witness ==
    /\ Len(models) > 0
    /\ IsFin(models[1].out["h2_required"]) /\ ~IsZero(models[1].out["h2_required"])
    /\ IsSet(self, "e_cruise") /\ ~IsSet(self, "h2_required")

(***************************************************************************)
(* C10.  For every model with cruise_speed > 0, e_cruise is p_cruise times *)
(* the flight time (cruise_range / 1000) / cruise_speed.                   *)
(***************************************************************************)
C10_EnergyIsPowerTimesTime ==
    CallerRuns => \A i \in Models :
        Positive(In(i)["cruise_speed"]) =>
            Same(models[i].out["e_cruise"],
                 FMul(models[i].out["p_cruise"],
                      FDiv(FDiv(In(i)["cruise_range"], Num(1000)),
                           In(i)["cruise_speed"])))

\* C10: a model with a positive speed and a finite non-zero energy is held
C10_Witness ==
    /\ CallerRuns
    /\ \E i \in Models :
          /\ Positive(In(i)["cruise_speed"])
          /\ IsFin(models[i].out["e_cruise"]) /\ ~IsZero(models[i].out["e_cruise"])

====
